---- MODULE Spec2Model ----
(***************************************************************************)
(* Model of travel_recommendation.js: the search widget's global state     *)
(* (travelData, the search input, the results container), its event        *)
(* handlers (DOMContentLoaded, search click, reset click) and the          *)
(* asynchronous fetchRecommendations calls they start.                     *)
(*                                                                         *)
(* JavaScript strings that the code inspects character by character        *)
(* (the search term, country names) are sequences of one-character         *)
(* strings; strings the code only copies or looks up are TLA+ strings.     *)
(***************************************************************************)
EXTENDS Integers, Sequences, FiniteSets, TLC

\* ------------------------------------------------------------------ bounds

\* Number of performSearch invocations that may be suspended at an await at
\* the same time.
MaxSearches == 2

\* Number of word pieces concatenated to form a raw search term in SearchSpec.
MaxPieces == 3

\* ------------------------------------------------------- string primitives

UpperChars == <<"A","B","C","D","E","F","G","H","I","J","K","L","M",
                "N","O","P","Q","R","S","T","U","V","W","X","Y","Z">>

LowerChars == <<"a","b","c","d","e","f","g","h","i","j","k","l","m",
                "n","o","p","q","r","s","t","u","v","w","x","y","z">>

\* Characters String.prototype.trim removes (those the inputs use).
WhiteSpace == {" ", "\t", "\n"}

toLowerChar(c) ==
    IF \E i \in 1..Len(UpperChars) : UpperChars[i] = c
    THEN LowerChars[CHOOSE i \in 1..Len(UpperChars) : UpperChars[i] = c]
    ELSE c

\* String.prototype.toLowerCase
toLowerCase(s) == [i \in 1..Len(s) |-> toLowerChar(s[i])]

\* String.prototype.trim: drop the leading and the trailing white space.
trim(s) ==
    LET keep == {i \in 1..Len(s) : s[i] \notin WhiteSpace}
    IN  IF keep = {} THEN <<>>
        ELSE LET first == CHOOSE i \in keep : \A j \in keep : i <= j
                 last  == CHOOSE i \in keep : \A j \in keep : j <= i
             IN  SubSeq(s, first, last)

\* String.prototype.includes: t occurs in s at some offset.
includes(s, t) ==
    \E k \in 0..(Len(s) - Len(t)) : SubSeq(s, k + 1, k + Len(t)) = t

\* ------------------------------------------------------------ the keywords

BEACH     == <<"b","e","a","c","h">>
TEMPLE    == <<"t","e","m","p","l","e">>
COUNTRY   == <<"c","o","u","n","t","r","y">>
BEACHES   == <<"b","e","a","c","h","e","s">>
TEMPLES   == <<"t","e","m","p","l","e","s">>
COUNTRIES == <<"c","o","u","n","t","r","i","e","s">>

\* normalizeInput with the 'temple' check placed before the 'beach' check.
normalizeInputTempleFirst(term) ==
    LET lowerTerm == trim(toLowerCase(term))
    IN  IF includes(lowerTerm, TEMPLE) THEN TEMPLES
        ELSE IF includes(lowerTerm, BEACH) THEN BEACHES
        ELSE IF includes(lowerTerm, COUNTRY) THEN COUNTRIES
        ELSE lowerTerm

\* normalizeInput (lines 54-64)
normalizeInput(term) ==
    LET lowerTerm == trim(toLowerCase(term))
    IN  IF includes(lowerTerm, BEACH) THEN BEACHES
        ELSE IF includes(lowerTerm, TEMPLE) THEN TEMPLES
        ELSE IF includes(lowerTerm, COUNTRY) THEN COUNTRIES
        ELSE lowerTerm


\* ------------------------------------------------------------- the dataset

\* travelData before any successful load (let travelData = null).
Null == [null |-> TRUE]

\* A place record of the JSON file: name, imageUrl, description.
Place(n, img) == [name |-> n, imageUrl |-> img, description |-> "about " \o n]

\* Country names, which the search inspects character by character.
JAPAN     == <<"J","a","p","a","n">>
BRAZIL    == <<"B","r","a","z","i","l">>
AUSTRALIA == <<"A","u","s","t","r","a","l","i","a">>

Tokyo  == Place("Tokyo, Japan", "tokyo.jpg")
Kyoto  == Place("Kyoto, Japan", "enter_your_image_for_kyoto.jpg")
Rio    == Place("Rio de Janeiro, Brazil", "")
Sydney == Place("Sydney, Australia", "sydney.jpg")
Perth  == Place("Perth, Australia", "perth.jpg")

Bondi  == Place("Bondi Beach, Australia", "bondi.jpg")
Copa   == Place("Copacabana Beach, Brazil", "enter_your_image_for_copa.jpg")
Angkor == Place("Angkor Wat, Cambodia", "angkor.jpg")
Taj    == Place("Taj Mahal, India", "")

DatasetA ==
    [countries |-> << [name |-> JAPAN,  cities |-> <<Tokyo, Kyoto>>],
                      [name |-> BRAZIL, cities |-> <<Rio>>] >>,
     beaches   |-> <<Bondi, Copa>>,
     temples   |-> <<Angkor>>]

\* A country listed twice, a city listed under two countries, a country
\* without cities, no beaches.
DatasetB ==
    [countries |-> << [name |-> AUSTRALIA, cities |-> <<Sydney, Tokyo>>],
                      [name |-> JAPAN,     cities |-> <<Kyoto, Tokyo>>],
                      [name |-> BRAZIL,    cities |-> <<>>],
                      [name |-> AUSTRALIA, cities |-> <<Perth>>] >>,
     beaches   |-> <<>>,
     temples   |-> <<Taj, Angkor, Taj>>]

DatasetC ==
    [countries |-> << [name |-> BRAZIL, cities |-> <<Rio, Rio>>] >>,
     beaches   |-> <<Copa>>,
     temples   |-> <<>>]

\* Contents travel_recommendation_api.json may have.
Datasets == {DatasetA, DatasetB, DatasetC}

\* timezoneMap (lines 11-18); "Sao Paulo" stands for the source's key
\* written with a tilde.
timezoneMap ==
    [n \in {"Sydney, Australia", "Melbourne, Australia", "Tokyo, Japan",
            "Kyoto, Japan", "Rio de Janeiro, Brazil", "Sao Paulo, Brazil"} |->
        CASE n = "Sydney, Australia"      -> "Australia/Sydney"
          [] n = "Melbourne, Australia"   -> "Australia/Melbourne"
          [] n = "Tokyo, Japan"           -> "Asia/Tokyo"
          [] n = "Kyoto, Japan"           -> "Asia/Tokyo"
          [] n = "Rio de Janeiro, Brazil" -> "America/Sao_Paulo"
          [] n = "Sao Paulo, Brazil"      -> "America/Sao_Paulo"]

\* getCurrentTime: '' without a zone, else the clock's reading in that zone,
\* kept as the token "now@<zone>".
getCurrentTime(timezone) ==
    IF timezone = "" THEN "" ELSE "now@" \o timezone

\* ------------------------------------------------------ the results area

EmptyHtml     == [kind |-> "empty",  cards |-> <<>>, detail |-> ""]
NoResultsHtml == [kind |-> "notice", cards |-> <<>>, detail |-> ""]

\* The catch block's message without the error's text.
ErrorHtmlNoDetail(message) == [kind |-> "error", cards |-> <<>>, detail |-> ""]

\* The catch block's message (lines 211-216): it embeds error.message.
ErrorHtml(message) == [kind |-> "error", cards |-> <<>>, detail |-> message]

\* Inline style of the results container before any handler touched it.
DefaultStyle ==
    [display |-> "", gridTemplateColumns |-> "", gap |-> "", marginTop |-> ""]

PlaceholderUrl == "https://placehold.co/400x250/A0B9E8/333333?text=Travel+Destination"

\* imageUrl.includes('enter_your_image'), for the URLs the datasets use.
IsPlaceholderSentinel(url) ==
    url \in {"enter_your_image_for_kyoto.jpg", "enter_your_image_for_copa.jpg"}

\* One card (lines 89-132).
Card(item, category) ==
    LET timezone == IF item.name \in DOMAIN timezoneMap
                    THEN timezoneMap[item.name] ELSE ""
    IN  [name        |-> item.name,
         src         |-> IF item.imageUrl # "" /\ ~IsPlaceholderSentinel(item.imageUrl)
                         THEN item.imageUrl ELSE PlaceholderUrl,
         time        |-> IF category = COUNTRIES THEN getCurrentTime(timezone) ELSE "",
         description |-> item.description]

\* displayRecommendations (lines 71-134): the container's new content and
\* inline style, given the style it had.
displayRecommendations(results, category, oldStyle) ==
    IF Len(results) = 0
    THEN [html |-> NoResultsHtml, style |-> oldStyle]
    ELSE [html  |-> [kind   |-> "cards",
                     cards  |-> [i \in 1..Len(results) |-> Card(results[i], category)],
                     detail |-> ""],
          style |-> [display             |-> "grid",
                     gridTemplateColumns |-> "repeat(auto-fit, minmax(300px, 1fr))",
                     gap                 |-> "30px",
                     marginTop           |-> "40px"]]

\* --------------------------------------------------------- the search logic

\* Line 158 with every keyword resolving to the beaches.
categoryItemsBeachesOnly(data, normalizedTerm) == data.beaches

\* travelData[normalizedTerm] || [] (line 158), normalizedTerm being
\* 'beaches' or 'temples'.
categoryItems(data, normalizedTerm) ==
    IF normalizedTerm = BEACHES THEN data.beaches ELSE data.temples

\* Array.prototype.filter is SelectSeq.

\* Lines 163-169 without the "|| normalizedTerm === 'countries'" disjunct.
matchingCountriesByNameOnly(data, rawTerm, normalizedTerm) ==
    LET countryTerm == trim(toLowerCase(rawTerm))
        match(country) == includes(toLowerCase(country.name), countryTerm)
    IN  SelectSeq(data.countries, match)

\* matchingCountries (lines 163-169)
matchingCountries(data, rawTerm, normalizedTerm) ==
    LET countryTerm == trim(toLowerCase(rawTerm))
        match(country) ==
            \/ includes(toLowerCase(country.name), countryTerm)
            \/ normalizedTerm = COUNTRIES
    IN  SelectSeq(data.countries, match)

\* Lines 172-180: every city of every matching country pushed in turn.
RECURSIVE collectCities(_)
collectCities(countries) ==
    IF countries = <<>> THEN <<>>
    ELSE [i \in 1..Len(Head(countries).cities) |->
            [name        |-> Head(countries).cities[i].name,
             imageUrl    |-> Head(countries).cities[i].imageUrl,
             description |-> Head(countries).cities[i].description]]
         \o collectCities(Tail(countries))

\* Lines 147-181 with the second branch taken for every remaining term.
searchWithoutEmptyGuard(data, rawTerm) ==
    LET normalizedTerm == normalizeInput(rawTerm)
    IN  IF normalizedTerm = BEACHES \/ normalizedTerm = TEMPLES
        THEN [normalizedTerm |-> normalizedTerm,
              results  |-> categoryItems(data, normalizedTerm),
              category |-> normalizedTerm]
        ELSE [normalizedTerm |-> normalizedTerm,
              results  |-> collectCities(matchingCountries(data, rawTerm, normalizedTerm)),
              category |-> COUNTRIES]

\* Lines 147-181 of performSearch: the locals normalizedTerm, results and
\* category when line 184 is reached.
search(data, rawTerm) ==
    LET normalizedTerm == normalizeInput(rawTerm)
    IN  IF normalizedTerm = BEACHES \/ normalizedTerm = TEMPLES
        THEN [normalizedTerm |-> normalizedTerm,
              results  |-> categoryItems(data, normalizedTerm),
              category |-> normalizedTerm]
        ELSE IF normalizedTerm = COUNTRIES \/ trim(rawTerm) # <<>>
        THEN [normalizedTerm |-> normalizedTerm,
              results  |-> collectCities(matchingCountries(data, rawTerm, normalizedTerm)),
              category |-> COUNTRIES]
        ELSE [normalizedTerm |-> normalizedTerm,
              results  |-> <<>>,
              category |-> <<>>]


\* ------------------------------------------------------------------- state

VARIABLES
    ready,          \* DOMContentLoaded has run: the click listeners are registered
    file,           \* what travel_recommendation_api.json holds
    travelData,     \* the global travelData (line 8)
    searchInput,    \* searchInput.value
    innerHTML,      \* resultsContainer.innerHTML
    style,          \* resultsContainer.style
    loadPc,         \* the fetchRecommendations call of line 225
    searchPc,       \* the performSearch invocations suspended at line 143
    lastOp,         \* which step ran last
    normalizedTerm, \* performSearch's locals when the last step reached line 184
    results,
    category,
    error,          \* error.message the last step caught at line 207
    everLoaded      \* line 204 has run

vars == <<ready, file, travelData, searchInput, innerHTML, style, loadPc,
          searchPc, lastOp, normalizedTerm, results, category, error, everLoaded>>

Invocations == 1..MaxSearches

\* How fetch() can fail to give an ok response: a rejected promise, or a
\* response whose ok is false (the message of line 197).
ResponseErrors ==
    {"Failed to fetch",
     "HTTP error! Status: 404. Check if 'travel_recommendation_api.json' exists."}

\* How response.json() can reject.
ParseErrors == {"Unexpected token < in JSON at position 0"}

\* Terms typed into the search field in Spec.
SampleInputs ==
    { <<>>, <<"B","e","a","c","h">>, <<"j","a","p","a","n">>, <<"x">> }

\* Word pieces of the terms SearchSpec starts from.
Pieces ==
    { <<"B","e","a","c","h">>, TEMPLE, <<"C","O","U","N","T","R","Y">>,
      COUNTRIES, JAPAN, <<"a">>, <<" ">>, <<"z">> }

RECURSIVE Terms(_)
Terms(n) ==
    IF n = 0 THEN {<<>>}
    ELSE Terms(n - 1) \cup {t \o p : t \in Terms(n - 1), p \in Pieces}

\* Number of fetches whose fetch() or response.json() is pending.
InFlight ==
    (IF loadPc \in {"fetch", "json"} THEN 1 ELSE 0)
    + Cardinality({i \in Invocations : searchPc[i] # "idle"})

\* The step's record of what ran, and of performSearch's locals.
Note(op, nt, res, cat, err) ==
    /\ lastOp' = op
    /\ normalizedTerm' = nt
    /\ results' = res
    /\ category' = cat
    /\ error' = err

NoteOnly(op) == Note(op, <<>>, <<>>, <<>>, "")

Init ==
    /\ ready = FALSE
    /\ file \in Datasets
    /\ travelData = Null
    /\ searchInput = <<>>
    /\ innerHTML = EmptyHtml
    /\ style = DefaultStyle
    /\ loadPc = "idle"
    /\ searchPc = [i \in Invocations |-> "idle"]
    /\ lastOp = "init"
    /\ normalizedTerm = <<>>
    /\ results = <<>>
    /\ category = <<>>
    /\ error = ""
    /\ everLoaded = FALSE

\* ----------------------------------------------------------------- actions

\* The user edits the search field.
TypeInput ==
    /\ \E raw \in SampleInputs : searchInput' = raw
    /\ NoteOnly("type")
    /\ UNCHANGED <<ready, file, travelData, innerHTML, style, loadPc, searchPc,
                   everLoaded>>

\* The DOMContentLoaded handler (lines 223-249): starts the initial fetch
\* and registers the two click listeners.
DOMContentLoaded ==
    /\ ~ready
    /\ ready' = TRUE
    /\ loadPc' = "fetch"
    /\ NoteOnly("domContentLoaded")
    /\ UNCHANGED <<file, travelData, searchInput, innerHTML, style, searchPc,
                   everLoaded>>

\* fetchRecommendations of line 225 resumes from await fetch(...).
LoadResponse ==
    /\ loadPc = "fetch"
    /\ \/ /\ loadPc' = "json"
          /\ NoteOnly("loadResponse")
          /\ UNCHANGED innerHTML
       \/ \E msg \in ResponseErrors :
            /\ innerHTML' = ErrorHtml(msg)
            /\ loadPc' = "done"
            /\ Note("loadFailed", <<>>, <<>>, <<>>, msg)
    /\ UNCHANGED <<ready, file, travelData, searchInput, style, searchPc, everLoaded>>

\* fetchRecommendations of line 225 resumes from await response.json().
LoadJson ==
    /\ loadPc = "json"
    /\ loadPc' = "done"
    /\ \/ /\ travelData' = file
          /\ everLoaded' = TRUE
          /\ NoteOnly("loaded")
          /\ UNCHANGED innerHTML
       \/ \E msg \in ParseErrors :
            /\ innerHTML' = ErrorHtml(msg)
            /\ Note("loadFailed", <<>>, <<>>, <<>>, msg)
            /\ UNCHANGED <<travelData, everLoaded>>
    /\ UNCHANGED <<ready, file, searchInput, style, searchPc>>

\* Lines 147-184 of performSearch, run against data.
RunSearch(data) ==
    LET s == search(data, searchInput)
        d == displayRecommendations(s.results, s.category, style)
    IN  /\ innerHTML' = d.html
        /\ style' = d.style
        /\ Note("render", s.normalizedTerm, s.results, s.category, "")

\* Search click with travelData set: performSearch runs to its end.
SearchClickLoaded ==
    /\ ready
    /\ travelData # Null
    /\ RunSearch(travelData)
    /\ UNCHANGED <<ready, file, travelData, searchInput, loadPc, searchPc, everLoaded>>

\* Search click with travelData null: performSearch calls fetchRecommendations
\* and suspends at line 143.
SearchClickAbsent ==
    /\ ready
    /\ travelData = Null
    /\ \E i \in Invocations :
        /\ searchPc[i] = "idle"
        /\ \A j \in Invocations : searchPc[j] = "idle" => i <= j
        /\ searchPc' = [searchPc EXCEPT ![i] = "fetch"]
    /\ NoteOnly("searchFetch")
    /\ UNCHANGED <<ready, file, travelData, searchInput, innerHTML, style, loadPc,
                   everLoaded>>

\* The catch block of fetchRecommendations called from performSearch, and
\* performSearch's lines 143-144 on the null it returns.
SearchFetchFailed(i, msg) ==
    /\ innerHTML' = ErrorHtml(msg)
    /\ travelData' = Null
    /\ searchPc' = [searchPc EXCEPT ![i] = "idle"]
    /\ Note("searchFailed", <<>>, <<>>, <<>>, msg)
    /\ UNCHANGED <<ready, file, searchInput, style, loadPc, everLoaded>>

\* The fetchRecommendations call of invocation i resumes from await fetch(...).
SearchResponse(i) ==
    /\ searchPc[i] = "fetch"
    /\ \/ /\ searchPc' = [searchPc EXCEPT ![i] = "json"]
          /\ NoteOnly("searchResponse")
          /\ UNCHANGED <<ready, file, travelData, searchInput, innerHTML, style,
                         loadPc, everLoaded>>
       \/ \E msg \in ResponseErrors : SearchFetchFailed(i, msg)

\* The fetchRecommendations call of invocation i resumes from
\* await response.json(); on success it sets travelData (line 204), returns
\* the data, and performSearch assigns it again (line 143) and searches.
\* The return and performSearch's resumption are microtasks of one task: no
\* click handler and no other fetch's completion runs between them.
SearchJson(i) ==
    /\ searchPc[i] = "json"
    /\ \/ /\ travelData' = file
          /\ everLoaded' = TRUE
          /\ searchPc' = [searchPc EXCEPT ![i] = "idle"]
          /\ RunSearch(file)
          /\ UNCHANGED <<ready, file, searchInput, loadPc>>
       \/ \E msg \in ParseErrors : SearchFetchFailed(i, msg)

\* The reset handler without the two style assignments of lines 245-246.
ResetClickKeepingStyle ==
    /\ ready
    /\ searchInput' = <<>>
    /\ innerHTML' = EmptyHtml
    /\ NoteOnly("reset")
    /\ UNCHANGED <<ready, file, travelData, style, loadPc, searchPc, everLoaded>>

\* The reset button's click handler (lines 237-247).
ResetClick ==
    /\ ready
    /\ searchInput' = <<>>
    /\ innerHTML' = EmptyHtml
    /\ style' = [style EXCEPT !.display = "block", !.marginTop = "0"]
    /\ NoteOnly("reset")
    /\ UNCHANGED <<ready, file, travelData, loadPc, searchPc, everLoaded>>

Next ==
    \/ TypeInput
    \/ DOMContentLoaded
    \/ LoadResponse
    \/ LoadJson
    \/ SearchClickLoaded
    \/ SearchClickAbsent
    \/ \E i \in Invocations : SearchResponse(i)
    \/ \E i \in Invocations : SearchJson(i)
    \/ ResetClick

Spec == Init /\ [][Next]_vars

\* The page after a successful initial load, with a term typed in.
InitSearch ==
    /\ ready = TRUE
    /\ file \in Datasets
    /\ travelData = file
    /\ searchInput \in Terms(MaxPieces)
    /\ innerHTML = EmptyHtml
    /\ style = DefaultStyle
    /\ loadPc = "done"
    /\ searchPc = [i \in Invocations |-> "idle"]
    /\ lastOp = "type"
    /\ normalizedTerm = <<>>
    /\ results = <<>>
    /\ category = <<>>
    /\ error = ""
    /\ everLoaded = TRUE

NextSearch ==
    \/ SearchClickLoaded
    \/ ResetClick

SearchSpec == InitSearch /\ [][NextSearch]_vars

\* ------------------------------------------------- the claims' vocabulary

\* w occurs in s as a contiguous run of characters.
Occurs(w, s) ==
    \E i \in 1..(Len(s) + 1) : \E j \in (i - 1)..Len(s) : SubSeq(s, i, j) = w

IsBlank(s) == \A i \in 1..Len(s) : s[i] \in WhiteSpace

\* The lowercased, trimmed form of raw: the stretch i..j of the lowercased
\* string with only white space before i and after j, and none at i or j.
Folded(raw) ==
    LET low == [i \in 1..Len(raw) |-> toLowerChar(raw[i])]
        n   == Len(low)
        cut == CHOOSE c \in (1..(n + 1)) \X (0..n) :
                 /\ c[1] <= c[2] + 1
                 /\ \A k \in 1..(c[1] - 1) : low[k] \in WhiteSpace
                 /\ \A k \in (c[2] + 1)..n : low[k] \in WhiteSpace
                 /\ c[1] <= c[2] =>
                      (low[c[1]] \notin WhiteSpace /\ low[c[2]] \notin WhiteSpace)
    IN  SubSeq(low, cut[1], cut[2])

\* The token the Input Normalizer is to return for raw.
Classified(raw) ==
    LET t == Folded(raw)
    IN  CASE Occurs(BEACH, t) -> BEACHES
          [] ~Occurs(BEACH, t) /\ Occurs(TEMPLE, t) -> TEMPLES
          [] ~Occurs(BEACH, t) /\ ~Occurs(TEMPLE, t) /\ Occurs(COUNTRY, t) -> COUNTRIES
          [] OTHER -> t

\* Indices of the countries a country search for raw selects.
Selected(data, raw) ==
    {i \in 1..Len(data.countries) :
        \/ Occurs(Folded(raw), Folded(data.countries[i].name))
        \/ Classified(raw) = COUNTRIES}

\* (country, city) index pairs of the selected countries' cities.
SelectedCities(data, raw) ==
    UNION {{<<i, j>> : j \in 1..Len(data.countries[i].cities)} :
              i \in Selected(data, raw)}

\* p comes before q in stored order.
Before(p, q) == p[1] < q[1] \/ (p[1] = q[1] /\ p[2] < q[2])

\* res lists the selected countries' cities, all of them, in stored order.
IsStoredOrderListing(res, data, raw) ==
    LET S == SelectedCities(data, raw)
    IN  /\ Len(res) = Cardinality(S)
        /\ \A p \in S :
             LET k == Cardinality({q \in S : Before(q, p)}) + 1
                 city == data.countries[p[1]].cities[p[2]]
             IN  /\ res[k].name = city.name
                 /\ res[k].description = city.description
                 /\ res[k].imageUrl = city.imageUrl

\* ------------------------------------------------------------------ claims

\* C1: once a fetch has completed successfully and set travelData, no
\* further fetch is started.
C1_NoFetchAfterLoad == [][everLoaded => InFlight' <= InFlight]_vars

\* C2: at most one fetch of the dataset is in flight in any reachable state.
C2_SingleFlight == InFlight <= 1

\* C3: once travelData is populated it is never reset to null nor replaced.
C3_WriteOnce == [][travelData # Null => travelData' = travelData]_vars

\* C4: when the load a search started fails, that search renders neither
\* cards nor the no-results notice, the results area shows the load-error
\* message with the caught error's text, the search starts no other fetch,
\* and travelData is null afterwards; and no search renders while
\* travelData is null.
C4_FailedLoadAbortsSearch ==
    /\ [][lastOp' = "searchFailed" =>
            /\ innerHTML'.kind = "error"
            /\ error' \in ResponseErrors \cup ParseErrors
            /\ innerHTML'.detail = error'
            /\ innerHTML'.cards = <<>>
            /\ results' = <<>>
            /\ travelData' = Null
            /\ InFlight' = InFlight - 1]_vars
    /\ [](lastOp = "render" => travelData # Null)

C4_Witness ==
    /\ lastOp = "searchFailed"
    /\ error \in ParseErrors
    /\ innerHTML = ErrorHtml(error)
    /\ travelData = Null
    /\ InFlight = 0

\* C5: a reset click empties the search field and the results area, puts
\* the results area back in block display with no top margin, starts no
\* fetch, and leaves travelData as it was.
C5_ResetFrame ==
    [][lastOp' = "reset" =>
        /\ searchInput' = <<>>
        /\ innerHTML' = EmptyHtml
        /\ style'.display = "block"
        /\ style'.marginTop = "0"
        /\ travelData' = travelData
        /\ loadPc' = loadPc
        /\ searchPc' = searchPc
        /\ InFlight' = InFlight]_vars

C5_Witness ==
    /\ lastOp = "reset"
    /\ travelData # Null
    /\ InFlight > 0
    /\ style.gap = "30px"
    /\ style.display = "block"

\* C6: whenever the last render was of an empty result sequence, the
\* results area holds exactly the no-results notice and is not in grid
\* display.
C6_EmptyNeverGrid ==
    (lastOp = "render" /\ results = <<>>) =>
        (innerHTML = NoResultsHtml /\ style.display # "grid")

\* C7: the normalized term of a search is beaches if the lowercased, trimmed
\* input contains "beach", else temples if it contains "temple", else
\* countries if it contains "country", else the lowercased, trimmed input.
C7_NormalizePriority ==
    lastOp = "render" => normalizedTerm = Classified(searchInput)

C7_Witness ==
    /\ lastOp = "render"
    /\ searchInput = TEMPLE \o <<"B","e","a","c","h">>
    /\ normalizedTerm = BEACHES

\* C8: a search whose normalized term is neither beaches nor temples, and
\* is countries or non-empty free text, has category countries and lists
\* the cities of exactly the countries whose lowercased name contains the
\* lowercased, trimmed term (of every country when the normalized term is
\* countries), in stored order, unsorted and with repetitions kept.
C8_CountrySearch ==
    (/\ lastOp = "render"
     /\ Classified(searchInput) \notin {BEACHES, TEMPLES}
     /\ (Classified(searchInput) = COUNTRIES \/ Folded(searchInput) # <<>>))
    => (/\ category = COUNTRIES
        /\ IsStoredOrderListing(results, travelData, searchInput))

C8_Witness ==
    /\ lastOp = "render"
    /\ travelData = DatasetB
    /\ searchInput = <<"a", " ">>
    /\ results = <<Sydney, Tokyo, Kyoto, Tokyo, Perth>>
    /\ category = COUNTRIES

\* C9: a search whose normalized term is beaches (temples) returns the
\* dataset's beaches (temples) sequence as stored, with that token as
\* category.
C9_KeywordSearch ==
    lastOp = "render" =>
        /\ Classified(searchInput) = BEACHES =>
             (results = travelData.beaches /\ category = BEACHES)
        /\ Classified(searchInput) = TEMPLES =>
             (results = travelData.temples /\ category = TEMPLES)

C9_Witness ==
    /\ lastOp = "render"
    /\ travelData = DatasetB
    /\ searchInput = JAPAN \o TEMPLE
    /\ results = <<Taj, Angkor, Taj>>
    /\ category = TEMPLES

\* C10: a search on an empty or white-space-only input yields no results
\* and the empty category, and the results area shows the no-results notice.
C10_EmptyInput ==
    (lastOp = "render" /\ IsBlank(searchInput)) =>
        /\ results = <<>>
        /\ category = <<>>
        /\ innerHTML = NoResultsHtml

C10_Witness ==
    /\ lastOp = "render"
    /\ searchInput = <<" ", " ">>
    /\ travelData = DatasetA
    /\ innerHTML = NoResultsHtml
====
